---- MODULE Spec2Model ----
(***************************************************************************)
(* Model of the convolution core of simd_playground (src/src/lib.rs):      *)
(* ConvKernel::new, and the five strategies naive1, naive2, simd1, simd2   *)
(* and simd3 of ConvProcessor, driven the way tests::make / tests::test    *)
(* drive them.                                                             *)
(*                                                                         *)
(* Numbers.  Pixels are u8.  Weights, accumulators and the normalizer are  *)
(* f32 in the source; the model draws integer weights, for which every     *)
(* product and partial sum is an integer far below 2^24 and therefore      *)
(* exact in f32 (fused or not).  The one inexact operation, the division   *)
(* by the normalizer, is kept as the exact quotient num/den; the following *)
(* clamp and truncating cast are computed on that quotient.                *)
(*                                                                         *)
(* usize values are kept as integers; a value that wrapped below zero in a *)
(* build without overflow checks is kept as its two's complement (a        *)
(* negative integer n stands for 2^64 + n), so +, - and * wrap for free    *)
(* and only comparisons and bounds checks need the unsigned reading.       *)
(***************************************************************************)
EXTENDS Integers, Sequences, FiniteSets, TLC

VARIABLES K, filter, avg, src, layer, answer, method, processed

vars == <<K, filter, avg, src, layer, answer, method, processed>>

(***************************************************************************)
(* Generic helpers                                                         *)
(***************************************************************************)
C == 3

None == <<>>
Some(v) == <<v>>

Panic(msg) == [panic |-> msg]
IsPanic(r) == "panic" \in DOMAIN r

SubOverflow == "attempt to subtract with overflow"
OutOfBounds == "index out of bounds"
UndefinedBehaviour == "undefined behaviour: access past the end of the buffer"

\* unsigned comparison of two usize values (negative = wrapped, i.e. huge)
ULt(a, b) == IF (a >= 0) = (b >= 0) THEN a < b ELSE a >= 0

\* a bounds-checked slice index: 0 <= index < len on the unsigned reading
InRange(index, len) == index >= 0 /\ index < len

\* `for v in lo..hi` / `(lo..hi).step_by(step)`: the body runs for lo, lo+step, ...
\* while below hi; a panic (st.fault) unwinds out of the loop.
RECURSIVE ForRange(_, _, _, _, _)
ForRange(lo, hi, step, Body(_, _), st) ==
    IF st.fault # "" \/ ~ULt(lo, hi)
    THEN st
    ELSE ForRange(lo + step, hi, step, Body, Body(lo, st))

\* s[lo] + ... + s[hi], summed by halves to keep the evaluation shallow
RECURSIVE SumRange(_, _, _)
SumRange(s, lo, hi) ==
    IF lo > hi THEN 0
    ELSE IF lo = hi THEN s[lo]
    ELSE LET mid == (lo + hi) \div 2
         IN  SumRange(s, lo, mid) + SumRange(s, mid + 1, hi)

\* filter.iter().sum()
SumSeq(s) == SumRange(s, 1, Len(s))

(***************************************************************************)
(* RgbImage (crate::image): height x width x 3 bytes, row-major,           *)
(* channel-interleaved.  content is 1-based here: byte `index` of the      *)
(* source is content[index + 1].                                           *)
(***************************************************************************)
from_raw(raw, h, w) == [height |-> h, width |-> w, content |-> raw]

content_len(img) == Len(img.content)

(***************************************************************************)
(* ConvKernel                                                              *)
(***************************************************************************)
ShapeMsg == "inconsistent filter size"
SizeMsg == "only odd number >= 3 is available for kernel size"
ZeroMsg == "cannot calculate average on filter with weights of total 0."

\* variant: the size test without its `K < 3` half
ConvKernel_new_even_only(k, fil, av) ==
    IF Len(fil) # k * k THEN Panic(ShapeMsg)
    ELSE IF k % 2 = 0 THEN Panic(SizeMsg)
    ELSE LET sum == SumSeq(fil)
         IN  IF av /\ sum = 0 THEN Panic(ZeroMsg)
             ELSE [inner |-> [n \in 1..Len(fil) |-> fil[n]],
                   div |-> IF av THEN Some(sum) ELSE None]

\* variant: the normalizer is the number of weights, not their sum
ConvKernel_new_count(k, fil, av) ==
    IF Len(fil) # k * k THEN Panic(ShapeMsg)
    ELSE IF k % 2 = 0 \/ k < 3 THEN Panic(SizeMsg)
    ELSE LET sum == SumSeq(fil)
         IN  IF av /\ sum = 0 THEN Panic(ZeroMsg)
             ELSE [inner |-> [n \in 1..Len(fil) |-> fil[n]],
                   div |-> IF av THEN Some(k * k) ELSE None]

ConvKernel_new(k, fil, av) ==
    IF Len(fil) # k * k THEN Panic(ShapeMsg)
    ELSE IF k % 2 = 0 \/ k < 3 THEN Panic(SizeMsg)
    ELSE LET sum == SumSeq(fil)
         IN  IF av /\ sum = 0 THEN Panic(ZeroMsg)
             ELSE [inner |-> [n \in 1..Len(fil) |-> fil[n]],
                   div |-> IF av THEN Some(sum) ELSE None]

at(kernel, k, i, j) == kernel.inner[i * k + j + 1]

ConvProcessor_new(k, fil, av) ==
    LET kern == ConvKernel_new(k, fil, av)
    IN  IF IsPanic(kern) THEN kern ELSE [K |-> k, kernel |-> kern]

(***************************************************************************)
(* The scalar tail of every strategy: `if let Some(div) { t /= div }` and  *)
(* `t.clamp(0, 255) as u8`.                                                *)
(***************************************************************************)
\* t /= div when the kernel carries a normalizer: the exact quotient
normalize(t, div) ==
    IF div = None THEN [num |-> t, den |-> 1] ELSE [num |-> t, den |-> div[1]]

Abs(n) == IF n < 0 THEN -n ELSE n

\* q <= 0 for a quotient with den # 0
NonPositive(q) == q.num = 0 \/ ((q.num < 0) # (q.den < 0))

\* floor of a positive quotient
Trunc(q) == Abs(q.num) \div Abs(q.den)

\* variant: the cast rounds to nearest
clamp_as_u8_round(q) ==
    IF NonPositive(q) THEN 0
    ELSE IF Abs(q.num) >= 255 * Abs(q.den) THEN 255
    ELSE (2 * Abs(q.num) + Abs(q.den)) \div (2 * Abs(q.den))

\* t.clamp(u8::MIN as f32, u8::MAX as f32) as u8
clamp_as_u8(q) ==
    IF NonPositive(q) THEN 0
    ELSE IF Abs(q.num) >= 255 * Abs(q.den) THEN 255
    ELSE Trunc(q)

\* dst[index] = v, bounds-checked
Store(st, index, v) ==
    IF st.fault # "" THEN st
    ELSE IF InRange(index, Len(st.dst))
    THEN [st EXCEPT !.dst[index + 1] = v]
    ELSE [st EXCEPT !.fault = OutOfBounds]

\* variant: xend stops one column early
Header_short(self, img, checks) ==
    LET h == img.height
        w == img.width
        hf == self.K \div 2
    IN  [h |-> h, w |-> w, half |-> hf, xend |-> w - hf - 1, yend |-> h - hf,
         fault |-> IF checks /\ (w < hf \/ h < hf) THEN SubOverflow ELSE "",
         dst |-> [n \in 1..(h * w * C) |-> 0]]

\* the loop header shared by all strategies: h, w, half, xend, yend and the
\* zero-filled destination.  With overflow checks `w - half` and `h - half`
\* panic when they underflow; without, they wrap.
Header(self, img, checks) ==
    LET h == img.height
        w == img.width
        hf == self.K \div 2
    IN  [h |-> h, w |-> w, half |-> hf, xend |-> w - hf, yend |-> h - hf,
         fault |-> IF checks /\ (w < hf \/ h < hf) THEN SubOverflow ELSE "",
         dst |-> [n \in 1..(h * w * C) |-> 0]]

\* RgbImage::from_raw(dst, h, w), or the panic that unwound out of the call
Finish(st, hd) ==
    IF st.fault # "" THEN Panic(st.fault) ELSE from_raw(st.dst, hd.h, hd.w)

\* the source index of tap (i, j) of channel c for the output pixel (y, x)
TapIndex(hd, x, y, c, i, j) == (y - hd.half + i) * hd.w * C + (x - hd.half + j) * C + c

\* the destination index of channel c of pixel (y, x)
DstIndex(hd, x, y, c) == y * hd.w * C + x * C + c

\* The taps of one pixel are read in increasing index order, so every read of
\* the K x K window starting at column x, widened by `extra` columns, is in
\* range exactly when the first and the last one are.
WindowInRange(hd, img, x, y, extra) ==
    /\ InRange(TapIndex(hd, x, y, 0, 0, 0), content_len(img))
    /\ InRange(TapIndex(hd, x + extra, y, C - 1, 2 * hd.half, 2 * hd.half), content_len(img))

\* for j in j..K: t += src.content()[index] as f32 * self.kernel.at(i, j),
\* where index = base + j * C and base is the index of tap (i, 0)
RECURSIVE TapRow(_, _, _, _, _, _)
TapRow(content, kernel, k, base, i, j) ==
    IF j = k THEN 0
    ELSE content[base + j * C + 1] * at(kernel, k, i, j)
         + TapRow(content, kernel, k, base, i, j + 1)

\* for i in i..K { for j in 0..K { ... } }
RECURSIVE TapSum(_, _, _, _, _, _, _)
TapSum(self, img, hd, x, y, c, i) ==
    IF i = self.K THEN 0
    ELSE TapRow(img.content, self.kernel, self.K, TapIndex(hd, x, y, c, i, 0), i, 0)
         + TapSum(self, img, hd, x, y, c, i + 1)

(***************************************************************************)
(* naive1: channel-outer scalar                                            *)
(***************************************************************************)
naive1_pixel(self, img, hd, x, y, c, st) ==
    IF ~WindowInRange(hd, img, x, y, 0) THEN [st EXCEPT !.fault = OutOfBounds]
    ELSE Store(st, DstIndex(hd, x, y, c),
               clamp_as_u8(normalize(TapSum(self, img, hd, x, y, c, 0), self.kernel.div)))

naive1(self, img, checks) ==
    LET hd == Header(self, img, checks)
        Row(y, st) ==
            ForRange(hd.half, hd.xend, 1,
                LAMBDA x, s1 : ForRange(0, C, 1,
                    LAMBDA c, s2 : naive1_pixel(self, img, hd, x, y, c, s2), s1),
                st)
        st0 == [dst |-> hd.dst, fault |-> hd.fault]
    IN  Finish(IF ~ULt(hd.half, hd.xend) THEN st0  \* rows without columns do nothing
               ELSE ForRange(hd.half, hd.yend, 1, Row, st0), hd)

(***************************************************************************)
(* naive2: channel-inner scalar.  peel_loop, the scalar tail of simd1,     *)
(* simd2 and simd3, is the same code.                                      *)
(***************************************************************************)
\* variant: the three channels are stored in reverse order
scalar_pixel_bgr(self, img, hd, x, y, st) ==
    IF st.fault # "" THEN st
    ELSE IF ~WindowInRange(hd, img, x, y, 0) THEN [st EXCEPT !.fault = OutOfBounds]
    ELSE LET rgb == [c \in 0..(C - 1) |-> TapSum(self, img, hd, x, y, c, 0)]
         IN  ForRange(0, C, 1,
                 LAMBDA c, s : Store(s, DstIndex(hd, x, y, 0) + (C - 1 - c),
                                     clamp_as_u8(normalize(rgb[c], self.kernel.div))),
                 st)

\* rgb[c] after the sweep of the kernel, then normalize, clamp and write
scalar_pixel(self, img, hd, x, y, st) ==
    IF st.fault # "" THEN st
    ELSE IF ~WindowInRange(hd, img, x, y, 0) THEN [st EXCEPT !.fault = OutOfBounds]
    ELSE LET rgb == [c \in 0..(C - 1) |-> TapSum(self, img, hd, x, y, c, 0)]
         IN  ForRange(0, C, 1,
                 LAMBDA c, s : Store(s, DstIndex(hd, x, y, 0) + c,
                                     clamp_as_u8(normalize(rgb[c], self.kernel.div))),
                 st)

peel_loop(self, img, hd, x, y, st) == scalar_pixel(self, img, hd, x, y, st)

naive2(self, img, checks) ==
    LET hd == Header(self, img, checks)
        Row(y, st) ==
            ForRange(hd.half, hd.xend, 1,
                LAMBDA x, s : scalar_pixel(self, img, hd, x, y, s), st)
        st0 == [dst |-> hd.dst, fault |-> hd.fault]
    IN  Finish(IF ~ULt(hd.half, hd.xend) THEN st0
               ELSE ForRange(hd.half, hd.yend, 1, Row, st0), hd)

(***************************************************************************)
(* SIMD registers.  A float32x4_t is a 4-tuple of lanes (lane z is v[z+1]),*)
(* a float32x4x3_t a 3-tuple of them (channel c is v[c+1]).                *)
(***************************************************************************)
Lanes4(F(_)) == <<F(0), F(1), F(2), F(3)>>
Chan3(G(_)) == <<G(0), G(1), G(2)>>

\* vdupq_n_f32(value)
vdupq_n_f32(value) == <<value, value, value, value>>

\* init_float32x4x3(value)
init_float32x4x3(value) == <<vdupq_n_f32(value), vdupq_n_f32(value), vdupq_n_f32(value)>>

\* variant: the two operands of the extract are swapped
vext_lane_swapped(n, a, b, l) == IF l + n < 4 THEN b[l + n + 1] ELSE a[l + n - 4 + 1]

\* lane l of vextq_f32::<n>(a, b): lanes n..3 of a followed by lanes 0..n-1 of b
vext_lane(n, a, b, l) == IF l + n < 4 THEN a[l + n + 1] ELSE b[l + n - 4 + 1]

\* vextq_f32::<n>(a, b)
vextq_f32(n, a, b) == Lanes4(LAMBDA l : vext_lane(n, a, b, l))

\* variant: the remainder is taken of the whole width
SimdHeader_whole_width(self, img, checks, lanes) ==
    LET hd == Header(self, img, checks)
    IN  [h |-> hd.h, w |-> hd.w, half |-> hd.half, xend |-> hd.xend, yend |-> hd.yend,
         dst |-> hd.dst,
         simd_end |-> hd.w - hd.half - (hd.w % lanes),
         fault |-> IF hd.fault # "" THEN hd.fault
                   ELSE IF checks /\ hd.w < 2 * hd.half THEN SubOverflow ELSE ""]

\* variant: simd_end without the remainder of the interior width
SimdHeader_no_remainder(self, img, checks, lanes) ==
    LET hd == Header(self, img, checks)
    IN  [h |-> hd.h, w |-> hd.w, half |-> hd.half, xend |-> hd.xend, yend |-> hd.yend,
         dst |-> hd.dst,
         simd_end |-> hd.w - hd.half,
         fault |-> IF hd.fault # "" THEN hd.fault
                   ELSE IF checks /\ hd.w < 2 * hd.half THEN SubOverflow ELSE ""]

\* the header of the vectorized strategies: simd_end on top of Header.  With
\* overflow checks `w - 2 * half` panics when it underflows; the remainder never
\* exceeds w - 2 * half, so the second subtraction cannot underflow then.
SimdHeader(self, img, checks, lanes) ==
    LET hd == Header(self, img, checks)
    IN  [h |-> hd.h, w |-> hd.w, half |-> hd.half, xend |-> hd.xend, yend |-> hd.yend,
         dst |-> hd.dst,
         simd_end |-> hd.w - hd.half - ((hd.w - 2 * hd.half) % lanes),
         fault |-> IF hd.fault # "" THEN hd.fault
                   ELSE IF checks /\ hd.w < 2 * hd.half THEN SubOverflow ELSE ""]

\* main execution of simd1, simd2 and simd3: per row the vector groups, then
\* the peel loop
MainExecution(self, img, hd, lanes, simd_loop(_, _, _)) ==
    LET Row(y, st) ==
            ForRange(hd.simd_end, hd.xend, 1,
                LAMBDA x, s : peel_loop(self, img, hd, x, y, s),
                ForRange(hd.half, hd.simd_end, lanes,
                    LAMBDA x, s : simd_loop(x, y, s), st))
        st0 == [dst |-> hd.dst, fault |-> hd.fault]
    IN  Finish(IF ~ULt(hd.half, hd.simd_end) /\ ~ULt(hd.simd_end, hd.xend) THEN st0
               ELSE ForRange(hd.half, hd.yend, 1, Row, st0), hd)

\* the values of x that `for x in (half..simd_end).step_by(lanes)` hands to
\* simd_loop, in order
vector_starts(hd, lanes) ==
    ForRange(hd.half, hd.simd_end, lanes,
        LAMBDA x, s : [s EXCEPT !.xs = Append(@, x)],
        [xs |-> <<>>, fault |-> ""]).xs

\* the values of x that `for x in simd_end..xend` hands to peel_loop, in order
peel_columns(hd) ==
    ForRange(hd.simd_end, hd.xend, 1,
        LAMBDA x, s : [s EXCEPT !.xs = Append(@, x)],
        [xs |-> <<>>, fault |-> ""]).xs

\* the scatter of simd1 and simd2: for each channel c and lane z,
\* dst[base_index + z * C + c] = (vt.c[z] / div).clamp(0, 255) as u8
Scatter(self, hd, x, y, vt, st) ==
    ForRange(0, C, 1,
        LAMBDA c, s1 : ForRange(0, 4, 1,
            LAMBDA z, s2 : Store(s2, DstIndex(hd, x, y, 0) + z * C + c,
                                 clamp_as_u8(normalize(vt[c + 1][z + 1], self.kernel.div))),
            s1),
        st)

(***************************************************************************)
(* simd1: 4 output columns per group, one gather per tap                   *)
(***************************************************************************)
\* variant: the accumulators start from zero at every kernel row
simd1_row_restart(self, img, hd, x, y, i, st) ==
    IF \/ ~InRange(TapIndex(hd, x, y, 0, i, 0), content_len(img))
       \/ ~InRange(TapIndex(hd, x + 3, y, C - 1, i, self.K - 1), content_len(img))
    THEN [st EXCEPT !.fault = OutOfBounds]
    ELSE LET vt == Chan3(LAMBDA c : Lanes4(LAMBDA z :
                       TapRow(img.content, self.kernel, self.K, TapIndex(hd, x + z, y, c, i, 0), i, 0)))
             wr == Scatter(self, hd, x, y, vt, [dst |-> st.dst, fault |-> ""])
         IN  [vt |-> vt, dst |-> wr.dst, fault |-> wr.fault]

\* one pass of `for i in 0..K` of simd_loop: the K taps of kernel row i are
\* fused into vt, then the 4 x 3 bytes of the group are written from vt
simd1_row(self, img, hd, x, y, i, st) ==
    IF \/ ~InRange(TapIndex(hd, x, y, 0, i, 0), content_len(img))
       \/ ~InRange(TapIndex(hd, x + 3, y, C - 1, i, self.K - 1), content_len(img))
    THEN [st EXCEPT !.fault = OutOfBounds]
    ELSE LET vt == Chan3(LAMBDA c : Lanes4(LAMBDA z :
                       st.vt[c + 1][z + 1] + TapRow(img.content, self.kernel, self.K, TapIndex(hd, x + z, y, c, i, 0), i, 0)))
             wr == Scatter(self, hd, x, y, vt, [dst |-> st.dst, fault |-> ""])
         IN  [vt |-> vt, dst |-> wr.dst, fault |-> wr.fault]

simd1_loop(self, img, hd, x, y, st) ==
    IF st.fault # "" THEN st
    ELSE LET r == ForRange(0, self.K, 1,
                      LAMBDA i, s : simd1_row(self, img, hd, x, y, i, s),
                      [vt |-> init_float32x4x3(0), dst |-> st.dst, fault |-> ""])
         IN  [dst |-> r.dst, fault |-> r.fault]

simd1(self, img, checks) ==
    LET hd == SimdHeader(self, img, checks, 4)
    IN  MainExecution(self, img, hd, 4, LAMBDA x, y, st : simd1_loop(self, img, hd, x, y, st))

(***************************************************************************)
(* simd2: 4 output columns per group, the source row loaded once into a    *)
(* bank of (K / 2 + 1) / 2 + 1 registers and windowed by vextq_f32         *)
(***************************************************************************)
\* the number of float32x4x3_t registers of simd2's bank
simd2_bank_len(k) == (k \div 2 + 1) \div 2 + 1

\* [mem::zeroed::<float32x4x3_t>(); n]
RECURSIVE zeroed_bank(_)
zeroed_bank(n) == IF n = 0 THEN <<>> ELSE Append(zeroed_bank(n - 1), init_float32x4x3(0))

\* variant: register k is loaded from column k, not from column 4 * k
simd2_load_unscaled(img, base_index, s4, k, c, four_or_two) ==
    Lanes4(LAMBDA z : IF z < four_or_two
                      THEN img.content[base_index + k * C + z * C + c + 1]
                      ELSE s4[z + 1])

\* load(k, c, four_or_two): s4[z] is overwritten for z < four_or_two only, so
\* the other lanes keep what the previous load left in s4
simd2_load(img, base_index, s4, k, c, four_or_two) ==
    Lanes4(LAMBDA z : IF z < four_or_two
                      THEN img.content[base_index + k * 4 * C + z * C + c + 1]
                      ELSE s4[z + 1])

\* make(k, ft): shared[k] = float32x4x3_t(load(k, 0, ft), load(k, 1, ft), load(k, 2, ft))
simd2_make(img, base_index, k, ft, st) ==
    IF st.fault # "" THEN st
    ELSE IF \/ ~InRange(base_index + k * 4 * C, content_len(img))
            \/ ~InRange(base_index + k * 4 * C + (ft - 1) * C + C - 1, content_len(img))
    THEN [st EXCEPT !.fault = OutOfBounds]
    ELSE LET r0 == simd2_load(img, base_index, st.s4, k, 0, ft)
             r1 == simd2_load(img, base_index, r0, k, 1, ft)
             r2 == simd2_load(img, base_index, r1, k, 2, ft)
         IN  [shared |-> [st.shared EXCEPT ![k + 1] = <<r0, r1, r2>>],
              s4 |-> r2, fault |-> ""]

\* the bank of kernel row i: registers 0..len-2 fully loaded, the last one
\* with 2 lanes when half is odd
simd2_fill(self, img, hd, x, y, i) ==
    LET len == simd2_bank_len(self.K)
        base_index == TapIndex(hd, x, y, 0, i, 0)
        ft == IF hd.half % 2 = 1 THEN 2 ELSE 4
    IN  simd2_make(img, base_index, len - 1, ft,
            ForRange(0, len - 1, 1,
                LAMBDA k, st : simd2_make(img, base_index, k, 4, st),
                [shared |-> zeroed_bank(len), s4 |-> vdupq_n_f32(0), fault |-> ""]))

\* lane z of the 4-lane window vs.c of the bank at lane offset s: shared[regi].c
\* when offset = 0, else vext::<offset>(shared[regi].c, shared[regi + 1].c)
window_lane(shared, s, c, z) ==
    LET regi == s \div 4
        offset == s % 4
    IN  IF offset # 0
        THEN vext_lane(offset, shared[regi + 1][c + 1], shared[regi + 2][c + 1], z)
        ELSE shared[regi + 1][c + 1][z + 1]

\* the window vs.c as a register
window(shared, s, c) == Lanes4(LAMBDA z : window_lane(shared, s, c, z))

\* every register index that window(shared, s, _) touches is inside the bank
window_indexed(len, s) == s \div 4 < len /\ (s % 4 # 0 => s \div 4 + 1 < len)

\* for j in j..K: lane z of vfmaq_f32(vt.c, vs.c, kern), vs the window at zoff + j
RECURSIVE bank_taps(_, _, _, _, _, _, _)
bank_taps(self, shared, zoff, c, z, i, j) ==
    IF j = self.K THEN 0
    ELSE window_lane(shared, zoff + j, c, z) * at(self.kernel, self.K, i, j)
         + bank_taps(self, shared, zoff, c, z, i, j + 1)

simd2_row(self, img, hd, x, y, i, st) ==
    LET bank == simd2_fill(self, img, hd, x, y, i)
    IN  IF bank.fault # "" THEN [st EXCEPT !.fault = bank.fault]
        ELSE IF \E j \in 0..(self.K - 1) : ~window_indexed(Len(bank.shared), j)
        THEN [st EXCEPT !.fault = OutOfBounds]
        ELSE LET vt == Chan3(LAMBDA c : Lanes4(LAMBDA z :
                           st.vt[c + 1][z + 1] + bank_taps(self, bank.shared, 0, c, z, i, 0)))
                 wr == Scatter(self, hd, x, y, vt, [dst |-> st.dst, fault |-> ""])
             IN  [vt |-> vt, dst |-> wr.dst, fault |-> wr.fault]

simd2_loop(self, img, hd, x, y, st) ==
    IF st.fault # "" THEN st
    ELSE LET r == ForRange(0, self.K, 1,
                      LAMBDA i, s : simd2_row(self, img, hd, x, y, i, s),
                      [vt |-> init_float32x4x3(0), dst |-> st.dst, fault |-> ""])
         IN  [dst |-> r.dst, fault |-> r.fault]

simd2(self, img, checks) ==
    LET hd == SimdHeader(self, img, checks, 4)
    IN  MainExecution(self, img, hd, 4, LAMBDA x, y, st : simd2_loop(self, img, hd, x, y, st))

(***************************************************************************)
(* simd3: 16 output columns per group, deinterleaved loads and store       *)
(***************************************************************************)
\* variant: a bank with room for the 16 columns of the group and the kernel's
\* reach, but no register for the remainder of the last load
simd3_bank_len_tight(k) == (k + 1) \div 4 + 3

\* the number of float32x4x3_t registers of simd3's bank
simd3_bank_len(k) == (k + 1) \div 4 + 4

\* vld3q_u8 / vld3_u8 at &src.content()[base]: `elems` pixels of 3 interleaved
\* bytes.  Only the first byte is bounds-checked; reading past the end of the
\* buffer is undefined behaviour.
vld3_fault(img, base, elems) ==
    IF ~InRange(base, content_len(img)) THEN OutOfBounds
    ELSE IF ~InRange(base + elems * C - 1, content_len(img)) THEN UndefinedBehaviour
    ELSE ""

\* cvt(z, sc.c): lanes 4z..4z+3 of channel c of the deinterleaved load, widened
\* u8 -> u16 -> u32 -> f32 (exact)
cvt(img, base, z, c) == Lanes4(LAMBDA l : img.content[base + (4 * z + l) * C + c + 1])

\* shared[b + z] = (cvt(z, sc.0), cvt(z, sc.1), cvt(z, sc.2)) for z in 0..regs,
\* each register index bounds-checked
RECURSIVE load_regs(_, _, _, _, _, _)
load_regs(img, base, b, z, regs, st) ==
    IF z = regs \/ st.fault # "" THEN st
    ELSE load_regs(img, base, b, z + 1, regs,
             IF ~InRange(b + z, Len(st.shared)) THEN [st EXCEPT !.fault = OutOfBounds]
             ELSE [st EXCEPT !.shared[b + z + 1] = Chan3(LAMBDA c : cvt(img, base, z, c))])

\* The fill state carries, beside the bank, what the loop has done so far:
\* `remains`, and `loads`, one entry per call of load16, load8 or load4or2
\* with its register index b, the source index it starts at and the number of
\* pixels it reads.
Logged(st, op, b, base, elems) ==
    [st EXCEPT !.loads = Append(@, [op |-> op, b |-> b, base |-> base, elems |-> elems])]

\* load16(shared, b): 16 pixels from base_index + b * C into shared[b..b+3]
load16(img, base_index, b, st) ==
    LET base == base_index + b * C
        f == vld3_fault(img, base, 16)
        s1 == Logged(st, "load16", b, base, 16)
    IN  IF f # "" THEN [s1 EXCEPT !.fault = f] ELSE load_regs(img, base, b, 0, 4, s1)

\* load8(shared, b): 8 pixels from base_index + b * C into shared[b..b+1]
load8(img, base_index, b, st) ==
    LET base == base_index + b * C
        f == vld3_fault(img, base, 8)
        s1 == Logged(st, "load8", b, base, 8)
    IN  IF f # "" THEN [s1 EXCEPT !.fault = f] ELSE load_regs(img, base, b, 0, 2, s1)

\* variant: the tail load reads four columns whatever four_or_two is
load4or2_four(img, base_index, b, four_or_two, st) ==
    LET base == base_index + b * 4 * C
        s1 == Logged(st, "load4or2", b, base, 4)
    IN  IF \/ ~InRange(base, content_len(img))
           \/ ~InRange(base + (4 - 1) * C + C - 1, content_len(img))
           \/ ~InRange(b, Len(st.shared))
        THEN [s1 EXCEPT !.fault = OutOfBounds]
        ELSE [s1 EXCEPT !.shared[b + 1] =
                 Chan3(LAMBDA c : Lanes4(LAMBDA z : img.content[base + z * C + c + 1]))]

\* load4or2(shared, b, four_or_two): s4 starts zeroed and is shared by the
\* three channel loads; lanes >= four_or_two are never written
load4or2(img, base_index, b, four_or_two, st) ==
    LET base == base_index + b * 4 * C
        s1 == Logged(st, "load4or2", b, base, four_or_two)
    IN  IF \/ ~InRange(base, content_len(img))
           \/ ~InRange(base + (four_or_two - 1) * C + C - 1, content_len(img))
           \/ ~InRange(b, Len(st.shared))
        THEN [s1 EXCEPT !.fault = OutOfBounds]
        ELSE [s1 EXCEPT !.shared[b + 1] =
                 Chan3(LAMBDA c : Lanes4(LAMBDA z :
                     IF z < four_or_two THEN img.content[base + z * C + c + 1] ELSE 0))]

\* while remains > 0 { match remains { 16.. => load16, 8.. => load8,
\*   4.. => load4or2(.., 4), 2.. => load4or2(.., 2) }; if remains < 2 { break } }
RECURSIVE fill_loop(_, _, _, _, _)
fill_loop(img, base_index, base, remains, st) ==
    IF st.fault # "" \/ remains <= 0 THEN st
    ELSE LET nx ==
               IF remains >= 16
               THEN [st |-> load16(img, base_index, base, st), remains |-> remains - 16, base |-> base + 4]
               ELSE IF remains >= 8
               THEN [st |-> load8(img, base_index, base, st), remains |-> remains - 8, base |-> base + 2]
               ELSE IF remains >= 4
               THEN [st |-> load4or2(img, base_index, base, 4, st), remains |-> remains - 4, base |-> base + 1]
               ELSE IF remains >= 2
               THEN [st |-> load4or2(img, base_index, base, 2, st), remains |-> remains - 2, base |-> base]
               ELSE [st |-> [st EXCEPT !.fault = "internal error: entered unreachable code"],
                     remains |-> remains, base |-> base]
             s2 == [nx.st EXCEPT !.remains = nx.remains]
         IN  IF nx.remains < 2 THEN s2
             ELSE fill_loop(img, base_index, nx.base, nx.remains, s2)

\* the bank of kernel row i for the group starting at column x
simd3_fill(self, img, hd, x, y, i) ==
    fill_loop(img, TapIndex(hd, x, y, 0, i, 0), 0, hd.half * 2 + 16,
              [shared |-> zeroed_bank(simd3_bank_len(self.K)), fault |-> "",
               remains |-> hd.half * 2 + 16, loads |-> <<>>])

\* one pass of `for i in 0..K`: vts[z] accumulates the K taps of kernel row i
\* for the sub-group of columns 4z..4z+3
simd3_row(self, img, hd, x, y, i, st) ==
    LET bank == simd3_fill(self, img, hd, x, y, i)
    IN  IF bank.fault # "" THEN [st EXCEPT !.fault = bank.fault]
        ELSE IF \E j \in 0..(self.K - 1), z \in 0..3 :
                    ~window_indexed(Len(bank.shared), z * 4 + j)
        THEN [st EXCEPT !.fault = OutOfBounds]
        ELSE [st EXCEPT !.vts = Lanes4(LAMBDA z : Chan3(LAMBDA c : Lanes4(LAMBDA l :
                  st.vts[z + 1][c + 1][l + 1]
                  + bank_taps(self, bank.shared, z * 4, c, l, i, 0))))]

\* vcvtq_u32_f32: round toward zero, negative values saturate to 0 (the upper
\* saturation at u32::MAX is out of reach of the model's sums)
vcvtq_u32_f32(q) == IF NonPositive(q) THEN 0 ELSE Trunc(q)

\* vqmovn_u32 / vqmovn_high_u32: saturating narrow to 16 bits
vqmovn_u32(v) == IF v > 65535 THEN 65535 ELSE v

\* vqmovn_u16 / vqmovn_high_u16: saturating narrow to 8 bits
vqmovn_u16(v) == IF v > 255 THEN 255 ELSE v

\* lane l (0..15) of vec4_cvt!(vts, c) after the division by the normalizer
vec4_cvt(self, vts, c, l) ==
    vqmovn_u16(vqmovn_u32(vcvtq_u32_f32(
        normalize(vts[(l \div 4) + 1][c + 1][(l % 4) + 1], self.kernel.div))))

\* vst3q_u8(&mut dst[base_index], ..): 16 pixels of 3 interleaved bytes; only
\* the first byte is bounds-checked
vst3q_u8(self, base_index, vts, st) ==
    IF ~InRange(base_index, Len(st.dst)) THEN [st EXCEPT !.fault = OutOfBounds]
    ELSE IF ~InRange(base_index + 16 * C - 1, Len(st.dst))
    THEN [st EXCEPT !.fault = UndefinedBehaviour]
    ELSE [st EXCEPT !.dst = [n \in 1..Len(st.dst) |->
             IF n - 1 >= base_index /\ n - 1 < base_index + 16 * C
             THEN vec4_cvt(self, vts, (n - 1 - base_index) % C, (n - 1 - base_index) \div C)
             ELSE st.dst[n]]]

simd3_loop(self, img, hd, x, y, st) ==
    IF st.fault # "" THEN st
    ELSE LET r == ForRange(0, self.K, 1,
                      LAMBDA i, s : simd3_row(self, img, hd, x, y, i, s),
                      [vts |-> Lanes4(LAMBDA z : init_float32x4x3(0)), fault |-> ""])
         IN  IF r.fault # "" THEN [st EXCEPT !.fault = r.fault]
             ELSE vst3q_u8(self, DstIndex(hd, x, y, 0), r.vts, st)

simd3(self, img, checks) ==
    LET hd == SimdHeader(self, img, checks, 16)
    IN  MainExecution(self, img, hd, 16, LAMBDA x, y, st : simd3_loop(self, img, hd, x, y, st))

(***************************************************************************)
(* Inputs.  The kernels of tests::FilterType (Box(k), averaging, for the   *)
(* sizes of check_all; Sobel, 3 x 3, not averaging), a position-coded      *)
(* kernel whose weights differ from tap to tap, and the malformed kernels  *)
(* ConvKernel::new rejects.  Images are noise (every byte differs from its *)
(* neighbours) or flat, of every bounded shape.                            *)
(***************************************************************************)
\* bounds of the model
MaxRows == 2         \* interior rows of an image that fits the kernel
MaxGroups == 1       \* whole vector groups per row
MaxTail == 1         \* peeled columns after the groups
MaxWork == 1450      \* taps per channel of one call: K * K * interior pixels
MaxSmallK == 5       \* kernels tried on images smaller than the kernel
MaxCodedK == 9       \* sizes of the position-coded kernel
MaxScale == 2        \* kernel weights are scaled by -MaxScale..MaxScale

\* config!(check_all, 3, 5, 7, 9, 11, 13, 15, 17, 19,)
CheckAllSizes == {3, 5, 7, 9, 11, 13, 15, 17, 19}

\* FilterType::Box(k).filter()
BoxFilter(k) == [n \in 1..(k * k) |-> 1]

\* SOBEL_FILTER
SobelFilter == <<-1, 0, 1, -2, 0, 2, -1, 0, 1>>

\* a kernel whose neighbouring weights differ: -2..2 by position
CodedFilter(k) == [n \in 1..(k * k) |-> ((n * 2) % 5) - 2]

\* c * W
Scaled(c, fil) == [n \in 1..Len(fil) |-> c * fil[n]]

\* the (K, filter, avg) triples ConvProcessor::<K>::new is called with
KernelInputs ==
    {[K |-> k, filter |-> BoxFilter(k), avg |-> TRUE] : k \in CheckAllSizes}
    \cup {[K |-> 3, filter |-> SobelFilter, avg |-> a] : a \in BOOLEAN}
    \cup {[K |-> k, filter |-> CodedFilter(k), avg |-> a] :
              k \in {n \in CheckAllSizes : n <= MaxCodedK}, a \in BOOLEAN}
    \cup {[K |-> k, filter |-> Scaled(c, BoxFilter(k)), avg |-> a] :
              k \in 0..4, c \in 0..MaxScale, a \in BOOLEAN}
    \cup {[K |-> k, filter |-> BoxFilter(n), avg |-> a] :
              k \in 2..4, n \in 2..3, a \in BOOLEAN}

\* interior widths: whole groups of 4 or 16 columns plus a peeled tail
InteriorCols ==
    {g * lanes + t : lanes \in {4, 16}, g \in 0..MaxGroups, t \in 0..MaxTail} \ {0}

\* <<height, width>> of the images a kernel of side k is applied to
Shapes(k) ==
    {<<k - 1 + p[1], k - 1 + p[2]>> :
         p \in {q \in (1..MaxRows) \X InteriorCols : k * k * q[1] * q[2] <= MaxWork}}
    \cup (IF k <= MaxSmallK THEN (0..k) \X (0..k) ELSE {})

\* RgbImage::load: a well-formed image, content.len() == height * width * 3
NoiseImage(h, w) ==
    from_raw([n \in 1..(h * w * C) |-> (n * 37 + (n \div 7) * 13) % 256], h, w)

FlatImage(h, w) ==
    from_raw([n \in 1..(h * w * C) |-> <<200, 100, 50>>[((n - 1) % C) + 1]], h, w)

Images(k) ==
    {NoiseImage(d[1], d[2]) : d \in Shapes(k)}
    \cup (IF k <= MaxSmallK THEN {FlatImage(d[1], d[2]) : d \in Shapes(k)} ELSE {})

\* what ConvKernel::new accepts
ValidInput(ki) ==
    Len(ki.filter) = ki.K * ki.K /\ ki.K % 2 = 1 /\ ki.K >= 3
    /\ (ki.avg => SumSeq(ki.filter) # 0)

(***************************************************************************)
(* The state machine: construct the processor, compute the reference       *)
(* answer with naive1 (tests::make), then call one strategy (tests::test). *)
(***************************************************************************)
NotBuilt == [absent |-> "layer"]
NotRun == [absent |-> "image"]

Init ==
    /\ \E ki \in KernelInputs :
          /\ K = ki.K
          /\ filter = ki.filter
          /\ avg = ki.avg
          /\ src \in IF ValidInput(ki) THEN Images(ki.K) ELSE {NoiseImage(3, 3)}
    /\ layer = NotBuilt
    /\ answer = NotRun
    /\ method = "none"
    /\ processed = NotRun

\* ConvProcessor::<K>::new(&filter, avg)
New ==
    /\ layer = NotBuilt
    /\ layer' = ConvProcessor_new(K, filter, avg)
    /\ UNCHANGED <<K, filter, avg, src, answer, method, processed>>

Built == layer # NotBuilt /\ ~IsPanic(layer)

\* what the process can make of undefined behaviour: it is killed, or it
\* carries on and returns whatever bytes it finds
UBOutcomes(img) ==
    {Panic(UndefinedBehaviour)}
    \cup {from_raw([n \in 1..content_len(img) |-> v], img.height, img.width) : v \in {0, 255}}

\* the results a call can have: with overflow checks (debug profile), and,
\* when that panics on an overflow, also without them (release profile)
Outcomes(strategy(_, _, _)) ==
    LET checked == strategy(layer, src, TRUE)
        wrapped == strategy(layer, src, FALSE)
    IN  IF checked # Panic(SubOverflow) THEN {checked}
        ELSE {checked} \cup (IF wrapped = Panic(UndefinedBehaviour)
                             THEN UBOutcomes(src) ELSE {wrapped})

\* layer.naive1(&img).save(answer_path)
Make ==
    /\ Built
    /\ answer = NotRun
    /\ answer' \in Outcomes(naive1)
    /\ UNCHANGED <<K, filter, avg, src, layer, method, processed>>

\* *processed = f(&layer, &img): one strategy is called on the image
CanCall == Built /\ answer # NotRun /\ method = "none"

Naive1 ==
    /\ CanCall
    /\ method' = "naive1"
    /\ processed' \in Outcomes(naive1)
    /\ UNCHANGED <<K, filter, avg, src, layer, answer>>

Naive2 ==
    /\ CanCall
    /\ method' = "naive2"
    /\ processed' \in Outcomes(naive2)
    /\ UNCHANGED <<K, filter, avg, src, layer, answer>>

Simd1 ==
    /\ CanCall
    /\ method' = "simd1"
    /\ processed' \in Outcomes(simd1)
    /\ UNCHANGED <<K, filter, avg, src, layer, answer>>

Simd2 ==
    /\ CanCall
    /\ method' = "simd2"
    /\ processed' \in Outcomes(simd2)
    /\ UNCHANGED <<K, filter, avg, src, layer, answer>>

Simd3 ==
    /\ CanCall
    /\ method' = "simd3"
    /\ processed' \in Outcomes(simd3)
    /\ UNCHANGED <<K, filter, avg, src, layer, answer>>

Next == New \/ Make \/ Naive1 \/ Naive2 \/ Simd1 \/ Simd2 \/ Simd3

Spec == Init /\ [][Next]_vars

\* The same tests on averaging kernels and light images only: a quarter of
\* the work allowed to a call of Spec.
InitScale ==
    /\ Init
    /\ avg
    /\ (src.height >= K /\ src.width >= K) =>
           K * K * (src.height - K + 1) * (src.width - K + 1) * 4 <= MaxWork

SpecScale == InitScale /\ [][Next]_vars

\* The same tests on every kernel size of check_all, on images one interior
\* row high: each interior width of Spec, whatever the work of the call.
WideShapes(k) == {<<k, k - 1 + cols>> : cols \in InteriorCols}

InitWide ==
    /\ \E k \in CheckAllSizes :
          /\ K = k
          /\ filter = BoxFilter(k)
          /\ avg = TRUE
          /\ src \in {NoiseImage(d[1], d[2]) : d \in WideShapes(k)}
    /\ layer = NotBuilt
    /\ answer = NotRun
    /\ method = "none"
    /\ processed = NotRun

SpecWide == InitWide /\ [][Next]_vars

(***************************************************************************)
(* Vocabulary of the properties                                            *)
(***************************************************************************)
IsImage(r) == "content" \in DOMAIN r

Half == K \div 2

\* the image is at least as large as the kernel
Fits == src.width >= K /\ src.height >= K

\* interior columns of the source image
Cols == src.width - 2 * Half

\* the byte of channel c of pixel (y, x): row * width * 3 + col * 3 + channel
ByteAt(img, y, x, c) == img.content[y * img.width * 3 + x * 3 + c + 1]

InteriorRows == Half..(src.height - Half - 1)
InteriorColumns == Half..(src.width - Half - 1)

SomeByteSet(img) == \E n \in 1..Len(img.content) : img.content[n] # 0

(***************************************************************************)
(* C1 (refuted by the code).  For every kernel side of check_all and every *)
(* image at least as large as the kernel, simd3 returns the image naive1   *)
(* returns, non-uniform images with a 16-column vector group included.     *)
(***************************************************************************)
C1_Simd3EqualsNaive1 ==
    (method = "simd3" /\ Fits /\ K \in CheckAllSizes) => processed = answer

(***************************************************************************)
(* C2.  For every kernel side of check_all and every image at least as     *)
(* large as the kernel, simd2 returns the image naive1 returns.            *)
(***************************************************************************)
C2_Simd2EqualsNaive1 ==
    (method = "simd2" /\ Fits /\ K \in CheckAllSizes) =>
        (IsImage(processed) /\ processed = answer)

\* reached: simd2 with a kernel whose half is odd (the bank's last register is
\* half-loaded), one vector group and one peeled column
C2_Witness ==
    /\ method = "simd2" /\ K = 15 /\ Fits /\ Cols = 5
    /\ processed = answer /\ IsImage(processed) /\ SomeByteSet(processed)

(***************************************************************************)
(* C3.  For every kernel side of check_all and every image at least as     *)
(* large as the kernel, simd1 returns the image naive1 returns: the bytes  *)
(* a 4-column group is left with are those of the complete K*K sum.        *)
(***************************************************************************)
C3_Simd1EqualsNaive1 ==
    (method = "simd1" /\ Fits /\ K \in CheckAllSizes) =>
        (IsImage(processed) /\ processed = answer)

C3_Witness ==
    /\ method = "simd1" /\ K = 19 /\ Fits /\ Cols >= 4
    /\ processed = answer /\ IsImage(processed) /\ SomeByteSet(processed)

(***************************************************************************)
(* C4.  For every valid kernel and every image at least as large as the    *)
(* kernel, naive2 returns the image naive1 returns.                        *)
(***************************************************************************)
C4_Naive2EqualsNaive1 ==
    (method = "naive2" /\ Fits) => (IsImage(processed) /\ processed = answer)

C4_Witness ==
    /\ method = "naive2" /\ Fits /\ layer.kernel.div = None /\ K = 5
    /\ processed = answer /\ IsImage(processed)
    /\ \E n \in 1..Len(processed.content) : processed.content[n] \notin {0, 255}

(***************************************************************************)
(* C5.  In the output of naive1 every interior byte (y, x, c) is the sum   *)
(* over the K x K taps of source[y-half+i, x-half+j, c] * weight(i, j),    *)
(* divided by the normalizer when there is one, clamped to [0, 255] and    *)
(* truncated toward zero; bytes are addressed row*width*3 + col*3 + c.     *)
(***************************************************************************)
\* the weighted sum, from the weights handed to the constructor
RefAcc(y, x, c) ==
    SumSeq([n \in 1..(K * K) |->
        ByteAt(src, y - Half + ((n - 1) \div K), x - Half + ((n - 1) % K), c) * filter[n]])

\* b is num/den clamped to [0, 255] and truncated toward zero
IsClampedTrunc(b, num, den) ==
    LET sn == IF den < 0 THEN -num ELSE num
        sd == IF den < 0 THEN -den ELSE den
    IN  \/ sn <= 0 /\ b = 0
        \/ sn >= 255 * sd /\ b = 255
        \/ sn > 0 /\ sn < 255 * sd /\ b * sd <= sn /\ sn < (b + 1) * sd

RefNormalizer == IF avg THEN SumSeq(filter) ELSE 1

C5_Naive1Formula ==
    (method = "naive1" /\ Fits) =>
        /\ IsImage(processed)
        /\ \A y \in InteriorRows, x \in InteriorColumns, c \in 0..2 :
               IsClampedTrunc(ByteAt(processed, y, x, c), RefAcc(y, x, c), RefNormalizer)

\* reached: an averaging kernel and a pixel whose quotient is not an integer,
\* so that truncation and rounding differ
C5_Witness ==
    /\ method = "naive1" /\ Fits /\ avg /\ IsImage(processed)
    /\ \E y \in InteriorRows, x \in InteriorColumns, c \in 0..2 :
           /\ (2 * (RefAcc(y, x, c) % RefNormalizer)) > RefNormalizer
           /\ ByteAt(processed, y, x, c) \in 1..254

(***************************************************************************)
(* C6.  For each of the five strategies and every image at least as large  *)
(* as the kernel, the output has the height, width and length of the input *)
(* and every byte of a pixel within `half` of an edge is 0.                *)
(***************************************************************************)
IsBorder(img, n) ==
    LET y == (n - 1) \div (img.width * 3)
        x == ((n - 1) % (img.width * 3)) \div 3
    IN  y < Half \/ y >= img.height - Half \/ x < Half \/ x >= img.width - Half

BorderZero(img) ==
    /\ IsImage(img)
    /\ img.height = src.height /\ img.width = src.width
    /\ Len(img.content) = src.height * src.width * 3
    /\ \A n \in 1..Len(img.content) : IsBorder(img, n) => img.content[n] = 0

C6_BorderZero ==
    /\ (answer # NotRun /\ Fits) => BorderZero(answer)
    /\ (method # "none" /\ Fits) => BorderZero(processed)

\* reached: simd3 stored a 16-column group next to a border that stayed 0
C6_Witness ==
    /\ method = "simd3" /\ Fits /\ Cols >= 16 /\ BorderZero(processed)
    /\ \A c \in 0..2 : ByteAt(processed, Half, src.width - Half - 1, c) # 0

(***************************************************************************)
(* C7.  ConvProcessor::new fails when the number of weights is not K*K,    *)
(* when K is even or below 3, and when averaging is asked of weights that  *)
(* sum to zero, each with its own message; otherwise it succeeds, keeps    *)
(* the weights in row-major order and carries the weight sum as normalizer *)
(* exactly when averaging was asked.                                       *)
(***************************************************************************)
BadShape == Len(filter) # K * K
BadSize == K % 2 = 0 \/ K < 3
BadSum == avg /\ SumSeq(filter) = 0

C7_KernelConstruction ==
    layer # NotBuilt =>
        /\ IsPanic(layer) <=> (BadShape \/ BadSize \/ BadSum)
        /\ IsPanic(layer) => layer.panic \in {ShapeMsg, SizeMsg, ZeroMsg}
        /\ layer = Panic(ShapeMsg) <=> BadShape
        /\ layer = Panic(SizeMsg) <=> (~BadShape /\ BadSize)
        /\ layer = Panic(ZeroMsg) <=> (~BadShape /\ ~BadSize /\ BadSum)
        /\ ~IsPanic(layer) =>
              /\ layer.K = K
              /\ layer.kernel.inner = filter
              /\ \A i \in 0..(K - 1), j \in 0..(K - 1) :
                     at(layer.kernel, K, i, j) = filter[i * K + j + 1]
              /\ avg => layer.kernel.div = Some(SumSeq(filter))
              /\ ~avg => layer.kernel.div = None

\* reached: non-zero weights that sum to zero, averaging asked
C7_Witness ==
    /\ layer = Panic(ZeroMsg) /\ K = 3 /\ avg
    /\ \E n \in 1..Len(filter) : filter[n] # 0

(***************************************************************************)
(* C8 (refuted by the code).  With a valid kernel and a well-formed image  *)
(* of any size, down to 0 x 0, no strategy call fails.                     *)
(***************************************************************************)
WellFormed == Len(src.content) = src.height * src.width * 3

C8_NoRuntimeFailure ==
    (Built /\ WellFormed) =>
        /\ answer # NotRun => IsImage(answer)
        /\ method # "none" => IsImage(processed)

(***************************************************************************)
(* C9 (refuted by the code).  For every strategy every output byte is in   *)
(* 0..255, an interior pixel whose normalized sum exceeds 255 is written   *)
(* as 255 and one whose sum is below 0 as 0.                               *)
(***************************************************************************)
Saturated(img) ==
    /\ \A n \in 1..Len(img.content) : img.content[n] \in 0..255
    /\ \A y \in InteriorRows, x \in InteriorColumns, c \in 0..2 :
           LET acc == RefAcc(y, x, c)
               sn == IF RefNormalizer < 0 THEN -acc ELSE acc
               sd == IF RefNormalizer < 0 THEN -RefNormalizer ELSE RefNormalizer
           IN  /\ sn > 255 * sd => ByteAt(img, y, x, c) = 255
               /\ sn < 0 => ByteAt(img, y, x, c) = 0

C9_Saturation ==
    (method # "none" /\ Fits /\ IsImage(processed)) => Saturated(processed)

(***************************************************************************)
(* C10.  For an averaging kernel W and every non-zero constant c, every    *)
(* strategy returns for the kernel built from c*W what it returns for the  *)
(* kernel built from W.                                                    *)
(***************************************************************************)
Scales == {c \in (-MaxScale)..MaxScale : c \notin {0, 1}}

\* the strategy that was called, applied by another processor
Apply(name, self, img) ==
    CASE name = "naive1" -> naive1(self, img, TRUE)
      [] name = "naive2" -> naive2(self, img, TRUE)
      [] name = "simd1" -> simd1(self, img, TRUE)
      [] name = "simd2" -> simd2(self, img, TRUE)
      [] name = "simd3" -> simd3(self, img, TRUE)

Minimal == src.width = 2 * Half + 1 /\ src.height = 2 * Half + 1

\* the group width of the strategy that was called
GroupWidth == IF method = "simd3" THEN 16 ELSE 4

C11_MinimalImage ==
    (method # "none" /\ Minimal) =>
        /\ IsImage(processed)
        /\ \A c \in 0..2 :
               IsClampedTrunc(ByteAt(processed, Half, Half, c),
                              RefAcc(Half, Half, c), RefNormalizer)
        /\ \A n \in 1..Len(processed.content) :
               (n - 1) \div 3 # Half * src.width + Half => processed.content[n] = 0
        /\ method \in {"simd1", "simd2", "simd3"} =>
               LET hd == SimdHeader(layer, src, TRUE, GroupWidth)
               IN  /\ vector_starts(hd, GroupWidth) = <<>>
                   /\ peel_columns(hd) = <<Half>>

\* reached: simd3 with the largest kernel has written the centre pixel
C11_Witness ==
    /\ method = "simd3" /\ Minimal /\ K = 19 /\ IsImage(processed)
    /\ \A c \in 0..2 : ByteAt(processed, Half, Half, c) # 0

(***************************************************************************)
(* C12.  In simd1 and simd2 (groups of 4) and simd3 (groups of 16), for    *)
(* every width >= 2*half+1, the vector loop starts its groups at half,     *)
(* half+G, ... below simd_end = width-half-((width-2*half) mod G), the     *)
(* peel loop takes the (width-2*half) mod G columns simd_end..width-half-1,*)
(* every interior column belongs to exactly one group or peel step, and no *)
(* group reaches column width-half.                                        *)
(***************************************************************************)
Partitioned(G) ==
    LET hd == SimdHeader(layer, src, TRUE, G)
        vs == vector_starts(hd, G)
        ps == peel_columns(hd)
        rem == (src.width - 2 * Half) % G
    IN  /\ hd.simd_end = src.width - Half - rem
        /\ Len(vs) = (src.width - 2 * Half) \div G
        /\ \A n \in 1..Len(vs) :
               /\ vs[n] = Half + (n - 1) * G
               /\ vs[n] < hd.simd_end
               /\ vs[n] + G - 1 < src.width - Half
        /\ ps = [n \in 1..rem |-> hd.simd_end + n - 1]
        /\ \A x \in InteriorColumns :
               Cardinality({n \in 1..Len(vs) : vs[n] <= x /\ x < vs[n] + G})
               + Cardinality({n \in 1..Len(ps) : ps[n] = x}) = 1

C12_ColumnPartition ==
    (Built /\ src.width >= 2 * Half + 1) => (Partitioned(4) /\ Partitioned(16))

\* reached: 17 interior columns, four groups of 4 or one of 16, and one peeled
C12_Witness ==
    /\ Built /\ Cols = 17 /\ method = "simd3" /\ IsImage(processed)
    /\ Len(vector_starts(SimdHeader(layer, src, TRUE, 4), 4)) = 4
    /\ Len(vector_starts(SimdHeader(layer, src, TRUE, 16), 16)) = 1
    /\ Len(peel_columns(SimdHeader(layer, src, TRUE, 16))) = 1

(***************************************************************************)
(* C13 (refuted by the code).  In simd3, for every group start x, interior *)
(* row y and kernel row i, the fill loop ends with remains = 0 and leaves  *)
(* in lane l of register r, for 4r+l < 2*half+16 and each channel, the     *)
(* source byte of row y-half+i at column x-half+4r+l; so the window of tap *)
(* (i, j) for sub-group z is source columns x-half+4z+j .. x-half+4z+j+3.  *)
(***************************************************************************)
BankCoversSpan(hd, x, y, i) ==
    LET bank == simd3_fill(layer, src, hd, x, y, i)
    IN  /\ bank.fault = ""
        /\ bank.remains = 0
        /\ \A r \in 0..(Len(bank.shared) - 1), l \in 0..3, c \in 0..2 :
               4 * r + l < 2 * Half + 16 =>
                   bank.shared[r + 1][c + 1][l + 1]
                       = ByteAt(src, y - Half + i, x - Half + 4 * r + l, c)
        /\ \A j \in 0..(K - 1), z \in 0..3, l \in 0..3, c \in 0..2 :
               window_lane(bank.shared, 4 * z + j, c, l)
                   = ByteAt(src, y - Half + i, x - Half + 4 * z + j + l, c)

C13_Simd3BankFill ==
    (method = "simd3" /\ Fits) =>
        LET hd == SimdHeader(layer, src, TRUE, 16)
            vs == vector_starts(hd, 16)
        IN  \A y \in InteriorRows, n \in 1..Len(vs), i \in 0..(K - 1) :
                BankCoversSpan(hd, vs[n], y, i)

(***************************************************************************)
(* C14.  In simd2, for every group start x, interior row y and kernel row  *)
(* i, the bank has ceil(half/2)+1 registers and holds the 2*half+4 source  *)
(* columns x-half .. x+half+3 of row y-half+i in order, the last register  *)
(* loaded in 2 lanes only when half is odd; for every kernel column j the  *)
(* window shifted out of registers j/4 and j/4+1 is source columns         *)
(* x-half+j .. x-half+j+3; no lane the tail load left unloaded is part of  *)
(* a window.                                                               *)
(***************************************************************************)
\* lanes 2 and 3 of the last register keep what the load before left there
TailLanesStale(shared) ==
    LET len == Len(shared)
    IN  \A l \in 2..3, c \in 0..2 :
            shared[len][c + 1][l + 1] = shared[len - 1][3][l + 1]

Simd2BankExact(hd, x, y, i) ==
    LET bank == simd2_fill(layer, src, hd, x, y, i)
        len == Len(bank.shared)
        loaded == 2 * Half + 4
    IN  /\ bank.fault = ""
        /\ len = (Half + 1) \div 2 + 1
        /\ 4 * (len - 1) + (IF Half % 2 = 1 THEN 2 ELSE 4) = loaded
        /\ \A r \in 0..(len - 1), l \in 0..3, c \in 0..2 :
               4 * r + l < loaded =>
                   bank.shared[r + 1][c + 1][l + 1]
                       = ByteAt(src, y - Half + i, x - Half + 4 * r + l, c)
        /\ Half % 2 = 1 => TailLanesStale(bank.shared)
        /\ \A j \in 0..(K - 1), l \in 0..3 :
               /\ j + l < loaded
               /\ \A c \in 0..2 :
                      window_lane(bank.shared, j, c, l)
                          = ByteAt(src, y - Half + i, x - Half + j + l, c)

C14_Simd2Bank ==
    (method = "simd2" /\ Fits) =>
        LET hd == SimdHeader(layer, src, TRUE, 4)
            vs == vector_starts(hd, 4)
        IN  \A y \in InteriorRows, n \in 1..Len(vs), i \in 0..(K - 1) :
                Simd2BankExact(hd, vs[n], y, i)

\* reached: half odd, and a lane the tail load skipped holds a byte that is not
\* the one of the column it would stand for
C14_Witness ==
    /\ method = "simd2" /\ Fits /\ K = 7 /\ Cols >= 5 /\ IsImage(processed)
    /\ LET bank == simd2_fill(layer, src, SimdHeader(layer, src, TRUE, 4), Half, Half, 0)
       IN  /\ bank.fault = ""
           /\ bank.shared[Len(bank.shared)][1][3] # ByteAt(src, 0, 4 * (Len(bank.shared) - 1) + 2, 0)

(***************************************************************************)
(* C15 (refuted by the code).  In simd1 and simd2 the destination bytes of *)
(* a 4-column group are written only after all K kernel rows have been     *)
(* accumulated: while fewer than K rows are summed the destination is as   *)
(* it was when the group started.                                          *)
(***************************************************************************)
\* the state of simd_loop for the group at (y, x) after its first n kernel rows
GroupAfter(hd, x, y, n) ==
    ForRange(0, n, 1,
        LAMBDA i, s : IF method = "simd1" THEN simd1_row(layer, src, hd, x, y, i, s)
                      ELSE simd2_row(layer, src, hd, x, y, i, s),
        [vt |-> init_float32x4x3(0), dst |-> hd.dst, fault |-> ""])

C15_NoPartialWrite ==
    (method \in {"simd1", "simd2"} /\ Fits) =>
        LET hd == SimdHeader(layer, src, TRUE, 4)
            vs == vector_starts(hd, 4)
        IN  \A y \in InteriorRows, n \in 1..Len(vs), rows \in 1..(K - 1) :
                GroupAfter(hd, vs[n], y, rows).dst = hd.dst

(***************************************************************************)
(* C16.  Every bank index is in range.  simd2 reads registers j/4 and,     *)
(* when j mod 4 # 0, j/4 + 1 of a bank of (K/2+1)/2+1 registers; simd3     *)
(* reads registers s/4 and, when s mod 4 # 0, s/4 + 1 for s = 4z + j of a  *)
(* bank of (K+1)/4+4 registers; and every register the fill loop of simd3  *)
(* writes (b..b+3 for load16, b..b+1 for load8, b for load4or2) is below   *)
(* (K+1)/4+4.                                                              *)
(***************************************************************************)
\* the bank registers one logged load writes
WrittenRegisters(ld) ==
    ld.b..(ld.b + (IF ld.op = "load16" THEN 3 ELSE IF ld.op = "load8" THEN 1 ELSE 0))

\* the loads of all fill loops of a call of simd3 on src
Simd3Loads ==
    LET hd == SimdHeader(layer, src, TRUE, 16)
        vs == vector_starts(hd, 16)
    IN  UNION {{simd3_fill(layer, src, hd, vs[n], y, i).loads[m] :
                    m \in 1..Len(simd3_fill(layer, src, hd, vs[n], y, i).loads)} :
               <<y, n, i>> \in InteriorRows \X (1..Len(vs)) \X (0..(K - 1))}

C16_BankIndices ==
    (Built /\ Fits) =>
        /\ \A j \in 0..(K - 1) :
              /\ j \div 4 < simd2_bank_len(K)
              /\ (j % 4 # 0 => j \div 4 + 1 < simd2_bank_len(K))
              /\ window_indexed(simd2_bank_len(K), j)
        /\ \A j \in 0..(K - 1), z \in 0..3 :
              /\ (4 * z + j) \div 4 < simd3_bank_len(K)
              /\ ((4 * z + j) % 4 # 0 => (4 * z + j) \div 4 + 1 < simd3_bank_len(K))
              /\ window_indexed(simd3_bank_len(K), 4 * z + j)
        /\ \A ld \in Simd3Loads : \A r \in WrittenRegisters(ld) :
              r >= 0 /\ r < simd3_bank_len(K)

\* the largest kernel on a row with a group: its fill loop runs load16 twice
\* and ends with a two-lane load into the last register of the bank
C16_Witness ==
    /\ method = "simd3" /\ K = 19 /\ Cols >= 16 /\ IsImage(processed)
    /\ \E ld \in Simd3Loads : ld.op = "load16" /\ ld.b = 4
    /\ \E ld \in Simd3Loads : ld.op = "load4or2" /\ ld.b = simd3_bank_len(K) - 1

(***************************************************************************)
(* C17.  On an image at least as wide and as high as the kernel every      *)
(* memory access of simd1, simd2 and simd3 is inside its buffer: each load *)
(* of simd3 (48 bytes for vld3q_u8, 24 for vld3_u8, and the indexed tail   *)
(* reads) lies in the source buffer and in the source row it reads; each   *)
(* 48-byte store lies in dst and in columns half..width-half-1 of row y;   *)
(* every indexed read and write of simd1 and simd2 is in range.            *)
(***************************************************************************)
RowBytes == src.width * C

\* `bytes` bytes from index base on lie in a buffer of len bytes
Inside(base, bytes, len) == base >= 0 /\ base + bytes - 1 < len

\* ... and in row r of an image as wide as src
InRow(base, bytes, r) ==
    base \div RowBytes = r /\ (base + bytes - 1) \div RowBytes = r

\* the column of the pixel that holds byte index n
ColumnOf(n) == (n % RowBytes) \div C

Simd3LoadsInside ==
    LET hd == SimdHeader(layer, src, TRUE, 16)
        vs == vector_starts(hd, 16)
    IN  \A y \in InteriorRows, n \in 1..Len(vs), i \in 0..(K - 1) :
            LET bank == simd3_fill(layer, src, hd, vs[n], y, i)
            IN  /\ bank.fault = ""
                /\ \A m \in 1..Len(bank.loads) :
                      /\ bank.loads[m].op = "load16" => bank.loads[m].elems * C = 48
                      /\ bank.loads[m].op = "load8" => bank.loads[m].elems * C = 24
                      /\ Inside(bank.loads[m].base, bank.loads[m].elems * C, content_len(src))
                      /\ InRow(bank.loads[m].base, bank.loads[m].elems * C, y - Half + i)

Simd3StoresInside ==
    LET hd == SimdHeader(layer, src, TRUE, 16)
        vs == vector_starts(hd, 16)
    IN  \A y \in InteriorRows, n \in 1..Len(vs) :
            LET base == DstIndex(hd, vs[n], y, 0)
            IN  /\ Inside(base, 16 * C, Len(hd.dst))
                /\ InRow(base, 16 * C, y)
                /\ ColumnOf(base) >= Half
                /\ ColumnOf(base + 16 * C - 1) <= src.width - Half - 1

\* the scatter of simd1 and simd2: 4 pixels of 3 bytes from DstIndex on
ScatterInside(hd, x, y) ==
    \A z \in 0..3, c \in 0..(C - 1) :
        InRange(DstIndex(hd, x, y, 0) + z * C + c, Len(hd.dst))

Simd1Inside ==
    LET hd == SimdHeader(layer, src, TRUE, 4)
        vs == vector_starts(hd, 4)
    IN  \A y \in InteriorRows, n \in 1..Len(vs) :
            /\ ScatterInside(hd, vs[n], y)
            /\ \A i \in 0..(K - 1), j \in 0..(K - 1), z \in 0..3, c \in 0..(C - 1) :
                  InRange(TapIndex(hd, vs[n], y, 0, i, j) + z * C + c, content_len(src))

Simd2Inside ==
    LET hd == SimdHeader(layer, src, TRUE, 4)
        vs == vector_starts(hd, 4)
        len == simd2_bank_len(K)
    IN  \A y \in InteriorRows, n \in 1..Len(vs) :
            /\ ScatterInside(hd, vs[n], y)
            /\ \A i \in 0..(K - 1) :
                  /\ simd2_fill(layer, src, hd, vs[n], y, i).fault = ""
                  /\ \A k \in 0..(len - 1), z \in 0..3, c \in 0..(C - 1) :
                        (k < len - 1 \/ z < (IF Half % 2 = 1 THEN 2 ELSE 4)) =>
                            InRange(TapIndex(hd, vs[n], y, 0, i, 0) + k * 4 * C + z * C + c,
                                    content_len(src))

C17_AccessesInside ==
    (method \in {"simd1", "simd2", "simd3"} /\ Fits) =>
        /\ IsImage(processed)
        /\ method = "simd1" => Simd1Inside
        /\ method = "simd2" => Simd2Inside
        /\ method = "simd3" => (Simd3LoadsInside /\ Simd3StoresInside)

\* the largest kernel on a row of exactly one group of 16: the tail load ends
\* on the last byte of its source row, the store on column width-half-1
C17_Witness ==
    /\ method = "simd3" /\ K = 19 /\ Cols = 16 /\ IsImage(processed)
    /\ \E ld \in Simd3Loads : (ld.base + ld.elems * C) % RowBytes = 0
    /\ \E ld \in Simd3Loads : ld.op = "load16" /\ ld.b = 4 /\ ld.base % RowBytes = 4 * C
    /\ LET hd == SimdHeader(layer, src, TRUE, 16)
       IN  ColumnOf(DstIndex(hd, Half, Half, 0) + 16 * C - 1) = src.width - Half - 1

====
